---- MODULE Spec2Model ----
(***************************************************************************)
(* Model of limitless_to_omi.py: the Limitless -> Omi migration script.    *)
(*                                                                         *)
(*   SpecTransform  analyze_lifelogs, convert_lifelog_to_omi and           *)
(*                  split_payload_if_needed applied to every lifelog of a  *)
(*                  bounded input set                                      *)
(*   SpecRange      LimitlessClient.get_date_range, one probe per step     *)
(*   Spec           main's import phase: the thread pool running           *)
(*                  import_single_lifelog, OmiClient._rate_limit and       *)
(*                  create_conversation, and the as_completed tally loop   *)
(*   SpecLive       Spec with the threads and main scheduled fairly        *)
(*   SpecConfirm    the same steps from main's confirmation on, for every  *)
(*                  combination of --dry-run, --yes and typed answers      *)
(*                                                                         *)
(* Python dicts are records, .get(k, default) is Get, lists are sequences, *)
(* character strings that the code slices or strips are sequences of       *)
(* one-character strings, and calendar dates are <<year, month, day>>.     *)
(***************************************************************************)
EXTENDS Integers, Sequences, FiniteSets, TLC

VARIABLES
    \* ---- convert / split (SpecTransform)
    tpc,                \* "start" | "converted" | "split"
    lifelog,            \* the lifelog handed to convert_lifelog_to_omi
    omi_payload,        \* its result
    split_payloads,     \* the result of split_payload_if_needed
    stats,              \* the result of analyze_lifelogs
    \* ---- get_date_range (SpecRange)
    rpc,                \* position in get_date_range
    has_data,           \* the source: the dates that hold at least one lifelog
    fail_budget,        \* how many more probes may fail
    latest_date, earliest_date, days_back, current, range_result,
    probes,             \* history: every probe made, with its answer
    \* ---- the import run (Spec)
    lifelogs,           \* the fetched lifelogs, main's work items
    dry_run,            \* --dry-run
    args_yes,           \* --yes
    confirm,            \* the answer to "Continue? [y/N]" as main keeps it
    mpc,                \* position of main
    futures,            \* per work item: state and result of its future
    yielded,            \* the futures as_completed has handed to main
    completed, success, failed, skipped, partial, total_conversations,
    wpc,                \* per worker thread: position
    witem,              \* per worker thread: the work item it runs (0: none)
    payloads,           \* per work item: import_single_lifelog's payloads
    chunk,              \* per work item: number of payloads already tried
    success_count,      \* per work item: import_single_lifelog's success_count
    lock,               \* OmiClient._lock: the holder, 0 when free
    last_request_time,  \* OmiClient._last_request_time
    wake,               \* per worker thread: when its time.sleep may return
    clock,              \* time.time()
    \* ---- what the run did (history, never read by the program)
    permits,            \* the clock values written to _last_request_time
    observed,           \* the values of _last_request_time read for a wait
    called,             \* per worker thread: when it called _rate_limit
    acquires,           \* per work item: _rate_limit calls that returned
    sent,               \* per work item: the payloads handed to requests.post
    answers             \* per work item: how each of those POSTs ended

tvars == <<tpc, lifelog, omi_payload, split_payloads, stats>>
rvars == <<rpc, has_data, fail_budget, latest_date, earliest_date, days_back,
           current, range_result, probes>>
mvars == <<lifelogs, dry_run, args_yes, confirm, mpc, futures, yielded, completed,
           success, failed, skipped, partial, total_conversations, wpc, witem,
           payloads, chunk, success_count, lock, last_request_time, wake,
           clock, permits, observed, called, acquires, sent, answers>>
vars == <<tvars, rvars, mvars>>

-----------------------------------------------------------------------------
(* Bounds of the model.  The three program limits are scaled so that TLC   *)
(* enumerates every input around them; every formula below is stated in    *)
(* terms of the names, not of the scaled values.                           *)

\* OMI_MAX_SEGMENTS = 500 in the source (line 38), scaled.
OMI_MAX_SEGMENTS == 2
\* OMI_MIN_DELAY = 60.0 / OMI_REQUESTS_PER_MINUTE = 0.6 s in the source
\* (lines 35-36), in clock ticks: one tick is 0.3 s.
OMI_MIN_DELAY == 2
\* The literal 365 of `while days_back < 365` (line 148), scaled.
MAX_DAYS_BACK == 5
\* Longest `contents` list of an enumerated lifelog.
MaxBlocks == 4
\* Number of calendar days the modelled source can hold data on.
DaysSpan == 8
\* Number of probes of one discovery that may fail.
MaxProbeFailures == 1
\* Number of lifelogs of an import run.
MaxLifelogs == 2
\* Number of uploads an import run asks for.
MaxUploads == 3
\* --workers
Workers == 2
\* Ticks the clock may advance while POSTs are in flight and no thread sleeps.
MaxIdleTicks == 2

None == "None"

\* date=None, and a date that is None
NoDate == <<>>

Min(a, b) == IF a <= b THEN a ELSE b

\* dict.get(k, default)
Get(d, k, default) == IF k \in DOMAIN d THEN d[k] ELSE default

-----------------------------------------------------------------------------
(* convert_lifelog_to_omi                                                  *)

IsSpace(c) == c = " "

RECURSIVE LStrip(_)
LStrip(s) == IF s # <<>> /\ IsSpace(Head(s)) THEN LStrip(Tail(s)) ELSE s

RECURSIVE RStrip(_)
RStrip(s) ==
    IF s # <<>> /\ IsSpace(s[Len(s)]) THEN RStrip(SubSeq(s, 1, Len(s) - 1)) ELSE s

\* str.strip()
Strip(s) == RStrip(LStrip(s))

RECURSIVE Digits(_)
Digits(n) == IF n < 10 THEN <<n>> ELSE Append(Digits(n \div 10), n % 10)

\* f"{n:02d}": decimal digits, zero-padded to width 2
Format02d(n) == IF n < 10 THEN <<0, n>> ELSE Digits(n)

\* f"SPEAKER_{speaker_counter:02d}"
SpeakerLabel(speaker_counter) == <<"SPEAKER_">> \o Format02d(speaker_counter)

\* speaker_map is an insertion-ordered dict: a sequence of <<key, value>>.
MapHas(speaker_map, name) ==
    \E i \in 1..Len(speaker_map) : speaker_map[i][1] = name

MapGet(speaker_map, name) ==
    speaker_map[CHOOSE i \in 1..Len(speaker_map) : speaker_map[i][1] = name][2]

\* list(speaker_map.keys()).index(speaker_name): first position, from 0
KeyIndexLastMutant(speaker_map, name) == Len(speaker_map) - 1

KeyIndex(speaker_map, name) ==
    CHOOSE i \in 0..(Len(speaker_map) - 1) :
        /\ speaker_map[i + 1][1] = name
        /\ \A j \in 0..(i - 1) : speaker_map[j + 1][1] # name

\* content.get("startOffsetMs", 0) / 1000.0, kept as an exact quotient
MsToSeconds(ms) == [num |-> ms, den |-> 1000]

\* line 234: only blockquote contents are transcript
IsTranscriptMutant(content) == Get(content, "type", None) # "heading1"

IsTranscript(content) == Get(content, "type", None) = "blockquote"

MakeSegment(content, text, speaker_map, speaker_name) ==
    [ text       |-> text,
      speaker    |-> MapGet(speaker_map, speaker_name),
      speaker_id |-> KeyIndex(speaker_map, speaker_name),
      is_user    |-> FALSE,
      start      |-> MsToSeconds(Get(content, "startOffsetMs", 0)),
      end        |-> MsToSeconds(Get(content, "endOffsetMs", 0)) ]

\* The for loop of lines 232-258 over the remaining contents.
RECURSIVE ConvertLoop(_, _, _, _)
ConvertLoop(contents, segments, speaker_map, speaker_counter) ==
    IF contents = <<>> THEN segments
    ELSE
      LET content == Head(contents)
          rest    == Tail(contents)
      IN
      IF ~IsTranscript(content)
      THEN ConvertLoop(rest, segments, speaker_map, speaker_counter)
      ELSE
        LET text == Strip(Get(content, "content", <<>>)) IN
        IF text = <<>>
        THEN ConvertLoop(rest, segments, speaker_map, speaker_counter)
        ELSE
          LET speaker_name == Get(content, "speakerName", "Unknown")
              isnew   == ~MapHas(speaker_map, speaker_name)
              map2    == IF isnew
                         THEN Append(speaker_map,
                                     <<speaker_name, SpeakerLabel(speaker_counter)>>)
                         ELSE speaker_map
              counter2 == IF isnew THEN speaker_counter + 1 ELSE speaker_counter
          IN ConvertLoop(rest,
                         Append(segments,
                                MakeSegment(content, text, map2, speaker_name)),
                         map2, counter2)

convert_lifelog_to_omi(log) ==
    [ transcript_segments |-> ConvertLoop(Get(log, "contents", <<>>), <<>>, <<>>, 0),
      started_at  |-> Get(log, "startTime", None),
      finished_at |-> Get(log, "endTime", None),
      source      |-> "phone",
      language    |-> "en" ]

-----------------------------------------------------------------------------
(* split_payload_if_needed                                                 *)

\* segments[i:i + OMI_MAX_SEGMENTS], i counted from 0
SliceChunkDropMutant(segments, i) ==
    SubSeq(segments, i + 1, Min(i + OMI_MAX_SEGMENTS, Len(segments)) - 1)

SliceChunkWideMutant(segments, i) ==
    SubSeq(segments, i + 1, Min(i + OMI_MAX_SEGMENTS + 1, Len(segments)))

SliceChunk(segments, i) ==
    SubSeq(segments, i + 1, Min(i + OMI_MAX_SEGMENTS, Len(segments)))

\* lines 332-338: the chunk with the original payload's other fields
ChunkPayload(p, piece) ==
    [ transcript_segments |-> piece,
      started_at  |-> p.started_at,
      finished_at |-> p.finished_at,
      source      |-> p.source,
      language    |-> p.language ]

\* the step of range(0, len(segments), OMI_MAX_SEGMENTS)
NextStartMutant(i) == i + OMI_MAX_SEGMENTS + 1

NextStart(i) == i + OMI_MAX_SEGMENTS

\* for i in range(0, len(segments), OMI_MAX_SEGMENTS), from i on
RECURSIVE SplitLoop(_, _, _)
SplitLoop(p, i, acc) ==
    IF i >= Len(p.transcript_segments) THEN acc
    ELSE SplitLoop(p, NextStart(i),
                   Append(acc, ChunkPayload(p, SliceChunk(p.transcript_segments, i))))

\* line 324
FitsOne(segments) == Len(segments) <= OMI_MAX_SEGMENTS

split_payload_if_needed(p) ==
    IF FitsOne(p.transcript_segments) THEN <<p>> ELSE SplitLoop(p, 0, <<>>)

-----------------------------------------------------------------------------
(* analyze_lifelogs                                                        *)

\* [c for c in log.get("contents", []) if c.get("type") == "blockquote"]
Blockquotes(log) ==
    SelectSeq(Get(log, "contents", <<>>),
              LAMBDA c : Get(c, "type", None) = "blockquote")

\* (segment_count + OMI_MAX_SEGMENTS - 1) // OMI_MAX_SEGMENTS
NumParts(segment_count) ==
    (segment_count + OMI_MAX_SEGMENTS - 1) \div OMI_MAX_SEGMENTS

\* log.get("startTime", "")[:10]; the empty string is NoDate
StartDate(log) ==
    IF "startTime" \in DOMAIN log THEN log.startTime.date ELSE NoDate

\* date_range[start_time] += 1, for a start_time that is not empty
CountDate(date_range, start_time) ==
    IF start_time = NoDate THEN date_range
    ELSE IF start_time \in DOMAIN date_range
         THEN [date_range EXCEPT ![start_time] = @ + 1]
         ELSE [d \in DOMAIN date_range \cup {start_time} |->
                  IF d = start_time THEN 1 ELSE date_range[d]]

\* The for loop of lines 285-304 over the remaining lifelogs.
RECURSIVE AnalyzeLoop(_, _)
AnalyzeLoop(logs, acc) ==
    IF logs = <<>> THEN acc
    ELSE
      LET log           == Head(logs)
          segment_count == Len(Blockquotes(log))
          oversized     == segment_count # 0 /\ segment_count > OMI_MAX_SEGMENTS
      IN AnalyzeLoop(Tail(logs),
           [ total_segments  |-> acc.total_segments + segment_count,
             empty_count     |-> IF segment_count = 0 THEN acc.empty_count + 1
                                 ELSE acc.empty_count,
             oversized_count |-> IF oversized THEN acc.oversized_count + 1
                                 ELSE acc.oversized_count,
             extra_conversations |->
                 IF oversized
                 THEN acc.extra_conversations + NumParts(segment_count) - 1
                 ELSE acc.extra_conversations,
             date_range      |-> CountDate(acc.date_range, StartDate(log)) ])

analyze_lifelogs(logs) ==
    LET acc == AnalyzeLoop(logs,
                   [ total_segments |-> 0, empty_count |-> 0,
                     oversized_count |-> 0, extra_conversations |-> 0,
                     date_range |-> << >> ])
        importable == Len(logs) - acc.empty_count
    IN [ total_lifelogs      |-> Len(logs),
         total_segments      |-> acc.total_segments,
         empty_count         |-> acc.empty_count,
         importable          |-> importable,
         oversized_count     |-> acc.oversized_count,
         total_conversations |-> importable + acc.extra_conversations,
         dates               |-> acc.date_range ]

-----------------------------------------------------------------------------
(* The lifelogs the model enumerates                                       *)

Hi == <<"h", "i">>

\* Content blocks as the Limitless API returns them; keys may be missing.
BlockKinds ==
    { [type |-> "blockquote", content |-> Hi, speakerName |-> "A",
       startOffsetMs |-> 0, endOffsetMs |-> 1500],
      [type |-> "blockquote", content |-> Hi, speakerName |-> "B",
       startOffsetMs |-> 1500, endOffsetMs |-> 2000],
      [type |-> "blockquote", content |-> Hi, speakerName |-> "C",
       startOffsetMs |-> 2000, endOffsetMs |-> 2500],
      [type |-> "blockquote", content |-> <<" ", "h", "i", " ">>,
       startOffsetMs |-> 2500],
      [type |-> "blockquote", content |-> Hi, speakerName |-> "Unknown"],
      [type |-> "blockquote", content |-> <<" ", " ">>, speakerName |-> "A"],
      [type |-> "blockquote", speakerName |-> "B"],
      [type |-> "heading2", content |-> Hi, speakerName |-> "A"] }

Timestamp(date, time) == [date |-> date, time |-> time]

MakeLifelog(contents) ==
    [ title     |-> <<"D", "a", "i", "l", "y">>,
      startTime |-> Timestamp(<<2025, 1, 10>>, "T08:00:00Z"),
      endTime   |-> Timestamp(<<2025, 1, 10>>, "T09:30:00Z"),
      contents  |-> contents ]

\* A lifelog of n transcript blocks whose speakers alternate.
LongContents(n) ==
    [ i \in 1..n |->
        [type |-> "blockquote", content |-> Hi,
         speakerName |-> IF i % 2 = 1 THEN "A" ELSE "B",
         startOffsetMs |-> 1000 * i, endOffsetMs |-> 1000 * i + 500] ]

TransformInputs ==
    { MakeLifelog(c) : c \in UNION { [1..k -> BlockKinds] : k \in 0..MaxBlocks } }
    \cup { MakeLifelog(LongContents(n)) :
             n \in (MaxBlocks + 1)..(2 * OMI_MAX_SEGMENTS + 1) }
    \cup { [title |-> <<"N">>, startTime |-> Timestamp(<<2025, 1, 11>>, "T10:00:00Z")] }

-----------------------------------------------------------------------------
(* SpecTransform: the preview's analysis, and convert, then split          *)

NotYet == [pending |-> TRUE]

TIdle ==
    /\ tpc = "idle"
    /\ lifelog = NotYet
    /\ omi_payload = NotYet
    /\ split_payloads = <<>>
    /\ stats = NotYet

TInit ==
    /\ tpc = "start"
    /\ lifelog \in TransformInputs
    /\ omi_payload = NotYet
    /\ split_payloads = <<>>
    /\ stats = NotYet

Convert ==
    /\ tpc = "start"
    /\ omi_payload' = convert_lifelog_to_omi(lifelog)
    /\ tpc' = "converted"
    /\ UNCHANGED <<lifelog, split_payloads, stats, rvars, mvars>>

Split ==
    /\ tpc = "converted"
    /\ split_payloads' = split_payload_if_needed(omi_payload)
    /\ tpc' = "split"
    /\ UNCHANGED <<lifelog, omi_payload, stats, rvars, mvars>>

\* Line 480: main analyses the fetched lifelogs, here the one lifelog.
Analyze ==
    /\ tpc # "idle"
    /\ stats = NotYet
    /\ stats' = analyze_lifelogs(<<lifelog>>)
    /\ UNCHANGED <<tpc, lifelog, omi_payload, split_payloads, rvars, mvars>>

TNext == Convert \/ Split \/ Analyze

-----------------------------------------------------------------------------
(* Calendar: datetime.strptime(s, "%Y-%m-%d"), timedelta and strftime.     *)
(* A date string is <<year, month, day>>; a datetime is its proleptic      *)
(* Gregorian ordinal, as datetime.toordinal() counts it.                   *)

IsLeap(y) == (y % 4 = 0) /\ ((y % 100 # 0) \/ (y % 400 = 0))

DaysInMonth(y, m) ==
    IF m = 2 THEN (IF IsLeap(y) THEN 29 ELSE 28)
    ELSE IF m \in {4, 6, 9, 11} THEN 30 ELSE 31

DaysBeforeYear(y) ==
    (y - 1) * 365 + ((y - 1) \div 4) - ((y - 1) \div 100) + ((y - 1) \div 400)

RECURSIVE DaysBeforeMonth(_, _)
DaysBeforeMonth(y, m) ==
    IF m = 1 THEN 0 ELSE DaysBeforeMonth(y, m - 1) + DaysInMonth(y, m - 1)

\* strptime: date string to datetime
Strptime(date) == DaysBeforeYear(date[1]) + DaysBeforeMonth(date[1], date[2]) + date[3]

CalendarYears == 2023..2026

\* strftime: datetime to date string
Strftime(n) ==
    LET y == CHOOSE yy \in CalendarYears :
                 DaysBeforeYear(yy) < n /\ n <= DaysBeforeYear(yy + 1)
        r == n - DaysBeforeYear(y)
        m == CHOOSE mm \in 1..12 :
                 DaysBeforeMonth(y, mm) < r
                 /\ r <= DaysBeforeMonth(y, mm) + DaysInMonth(y, mm)
    IN <<y, m, r - DaysBeforeMonth(y, m)>>

\* (datetime.strptime(date, "%Y-%m-%d") - timedelta(days=k)).strftime("%Y-%m-%d")
DateMinus(date, k) == Strftime(Strptime(date) - k)

\* startTime[:10]: the date part of an ISO timestamp
DatePrefix(ts) == ts.date

-----------------------------------------------------------------------------
(* LimitlessClient.get_date_range                                          *)

\* The days the modelled source may hold lifelogs on: they span a year end.
FirstDay == Strptime(<<2024, 12, 28>>)

SourceDates == { Strftime(FirstDay + i) : i \in 0..(DaysSpan - 1) }

\* The date of the most recent lifelog of the source.
MostRecent(dates) ==
    CHOOSE d \in dates : \A e \in dates : Strptime(e) <= Strptime(d)

\* result["data"]["lifelogs"][0] of fetch_lifelogs(limit=1): the most recent
\* lifelog, without its contents.
LatestLifelog(dates) ==
    [ title |-> <<"L">>, startTime |-> Timestamp(MostRecent(dates), "T21:15:00Z") ]

\* latest.get("startTime", "")[:10]
LatestDate(dates) == DatePrefix(LatestLifelog(dates).startTime)

\* What fetch_lifelogs(date=check_date, limit=1) answers: the `if result and
\* result.get("data", {}).get("lifelogs")` test of lines 152 and 168.
ProbeHasData(check_date) == check_date \in has_data

RIdle ==
    /\ rpc = "idle"
    /\ has_data = {}
    /\ fail_budget = 0
    /\ latest_date = NoDate
    /\ earliest_date = NoDate
    /\ days_back = 0
    /\ current = 0
    /\ range_result = <<>>
    /\ probes = <<>>

RInit ==
    /\ rpc = "start"
    /\ has_data \in SUBSET SourceDates
    /\ fail_budget \in 0..MaxProbeFailures
    /\ latest_date = NoDate
    /\ earliest_date = NoDate
    /\ days_back = 0
    /\ current = 0
    /\ range_result = <<>>
    /\ probes = <<>>

Probed(date, answer) == Append(probes, [date |-> date, answer |-> answer])

\* line 148
WithinCeiling(db) == db < MAX_DAYS_BACK

\* Lines 137-146: the most recent lifelog seeds latest_date.
FetchLatest ==
    /\ rpc = "start"
    /\ \/ /\ has_data # {}
          /\ latest_date' = LatestDate(has_data)
          /\ earliest_date' = LatestDate(has_data)
          /\ days_back' = 1
          /\ probes' = Probed(NoDate, "data")
          /\ IF WithinCeiling(1)
             THEN rpc' = "exponential" /\ current' = current
             ELSE rpc' = "linear" /\ current' = Strptime(LatestDate(has_data))
          /\ UNCHANGED <<fail_budget, range_result>>
       \/ /\ has_data = {}
          /\ range_result' = <<NoDate, NoDate>>
          /\ probes' = Probed(NoDate, "empty")
          /\ rpc' = "done"
          /\ UNCHANGED <<fail_budget, latest_date, earliest_date, days_back, current>>
       \/ \* response.ok is false: fetch_lifelogs returns None
          /\ fail_budget > 0
          /\ fail_budget' = fail_budget - 1
          /\ range_result' = <<NoDate, NoDate>>
          /\ probes' = Probed(NoDate, "http_error")
          /\ rpc' = "done"
          /\ UNCHANGED <<latest_date, earliest_date, days_back, current>>
       \/ \* requests.get raises: nothing in get_date_range catches it
          /\ fail_budget > 0
          /\ fail_budget' = fail_budget - 1
          /\ probes' = Probed(NoDate, "transport_error")
          /\ rpc' = "raised"
          /\ UNCHANGED <<latest_date, earliest_date, days_back, current, range_result>>
    /\ UNCHANGED <<has_data, tvars, mvars>>

\* Lines 148-159: one turn of the doubling loop, then the loop test.
ExponentialProbe ==
    /\ rpc = "exponential"
    /\ LET check_date == DateMinus(latest_date, days_back) IN
       \/ /\ ProbeHasData(check_date)
          /\ earliest_date' = check_date
          /\ days_back' = days_back * 2
          /\ probes' = Probed(check_date, "data")
          /\ IF WithinCeiling(days_back * 2)
             THEN rpc' = "exponential" /\ current' = current
             ELSE rpc' = "linear" /\ current' = Strptime(check_date)
          /\ UNCHANGED <<fail_budget, range_result>>
       \/ /\ ~ProbeHasData(check_date)
          /\ probes' = Probed(check_date, "empty")
          /\ rpc' = "linear"
          /\ current' = Strptime(earliest_date)
          /\ UNCHANGED <<fail_budget, earliest_date, days_back, range_result>>
       \/ /\ fail_budget > 0
          /\ fail_budget' = fail_budget - 1
          /\ probes' = Probed(check_date, "http_error")
          /\ rpc' = "linear"
          /\ current' = Strptime(earliest_date)
          /\ UNCHANGED <<earliest_date, days_back, range_result>>
       \/ /\ fail_budget > 0
          /\ fail_budget' = fail_budget - 1
          /\ probes' = Probed(check_date, "transport_error")
          /\ rpc' = "raised"
          /\ UNCHANGED <<earliest_date, days_back, current, range_result>>
    /\ UNCHANGED <<has_data, latest_date, tvars, mvars>>

\* line 165: (current - timedelta(days=1)).strftime("%Y-%m-%d")
LinearCheckDateMutant(cur) == Strftime(cur - 2)

LinearCheckDate(cur) == Strftime(cur - 1)

\* line 170: current = current - timedelta(days=1)
StepBackMutant(cur) == cur - 2

StepBack(cur) == cur - 1

\* Lines 163-176: one turn of the day-by-day loop; its break returns.
LinearProbe ==
    /\ rpc = "linear"
    /\ LET check_date == LinearCheckDate(current) IN
       \/ /\ ProbeHasData(check_date)
          /\ earliest_date' = check_date
          /\ current' = StepBack(current)
          /\ probes' = Probed(check_date, "data")
          /\ UNCHANGED <<rpc, fail_budget, range_result>>
       \/ /\ ~ProbeHasData(check_date)
          /\ probes' = Probed(check_date, "empty")
          /\ range_result' = <<earliest_date, latest_date>>
          /\ rpc' = "done"
          /\ UNCHANGED <<fail_budget, earliest_date, current>>
       \/ /\ fail_budget > 0
          /\ fail_budget' = fail_budget - 1
          /\ probes' = Probed(check_date, "http_error")
          /\ range_result' = <<earliest_date, latest_date>>
          /\ rpc' = "done"
          /\ UNCHANGED <<earliest_date, current>>
       \/ /\ fail_budget > 0
          /\ fail_budget' = fail_budget - 1
          /\ probes' = Probed(check_date, "transport_error")
          /\ rpc' = "raised"
          /\ UNCHANGED <<earliest_date, current, range_result>>
    /\ UNCHANGED <<has_data, latest_date, days_back, tvars, mvars>>

RNext == FetchLatest \/ ExponentialProbe \/ LinearProbe

-----------------------------------------------------------------------------
(* The import run: main from step 4 on, the pool's worker threads running  *)
(* import_single_lifelog, and the OmiClient they share.                    *)

\* Lifelogs of an import run: one without any transcript, one that makes
\* one payload, one that makes two.
RunCatalog ==
    { MakeLifelog(<< [type |-> "heading2", content |-> Hi, speakerName |-> "A"],
                     [type |-> "heading1", content |-> Hi \o Hi \o Hi] >>),
      MakeLifelog(LongContents(1)),
      MakeLifelog(LongContents(OMI_MAX_SEGMENTS + 1)) }

\* One that makes three payloads, the last one short.
LongLifelog == MakeLifelog(LongContents(2 * OMI_MAX_SEGMENTS + 1))

\* The number of payloads import_single_lifelog makes of a retained record.
RECURSIVE UploadsOf(_)
UploadsOf(run) ==
    IF run = <<>> THEN 0
    ELSE LET p == convert_lifelog_to_omi(Head(run)) IN
         (IF p.transcript_segments = <<>> THEN 0
          ELSE Len(split_payload_if_needed(p))) + UploadsOf(Tail(run))

\* Every list of at most MaxLifelogs of these lifelogs that asks for at most
\* MaxUploads uploads.
RunInputs ==
    { run \in UNION { [1..n -> RunCatalog \cup {LongLifelog}] : n \in 1..MaxLifelogs } :
        UploadsOf(run) <= MaxUploads }

Items == 1..Len(lifelogs)
Threads == 1..Workers

\* time.time() when the run starts: far more than OMI_MIN_DELAY after 0, the
\* initial _last_request_time.
ClockStart == OMI_MIN_DELAY

\* log.get('title', 'Untitled')[:30]
TITLE_WIDTH == 30
Title(log) ==
    LET t == Get(log, "title", <<"U", "n", "t", "i", "t", "l", "e", "d">>)
    IN SubSeq(t, 1, Min(TITLE_WIDTH, Len(t)))

NoResult == <<>>

MIdle ==
    /\ lifelogs = <<>>
    /\ dry_run = FALSE
    /\ args_yes = FALSE
    /\ confirm = <<>>
    /\ mpc = "idle"
    /\ futures = <<>> /\ yielded = {}
    /\ completed = 0 /\ success = 0 /\ failed = 0 /\ skipped = 0 /\ partial = 0
    /\ total_conversations = 0
    /\ wpc = <<>> /\ witem = <<>> /\ payloads = <<>> /\ chunk = <<>>
    /\ success_count = <<>>
    /\ lock = 0 /\ last_request_time = 0 /\ wake = <<>>
    /\ clock = 0
    /\ permits = <<>> /\ observed = <<>> /\ called = <<>>
    /\ acquires = <<>> /\ sent = <<>> /\ answers = <<>>

\* The runs of the specification of main's step 4: no record needs a split.
ConfirmInputs ==
    { run \in RunInputs : \A i \in 1..Len(run) : Len(Blockquotes(run[i])) <= 1 }

\* main at step 4, before anything is submitted.
MReady ==
    /\ confirm = <<>>
    /\ mpc = "confirm"
    /\ futures = [i \in Items |-> [state |-> "unsubmitted", result |-> NoResult]]
    /\ yielded = {}
    /\ completed = 0 /\ success = 0 /\ failed = 0 /\ skipped = 0 /\ partial = 0
    /\ total_conversations = 0
    /\ wpc = [w \in Threads |-> "idle"]
    /\ witem = [w \in Threads |-> 0]
    /\ payloads = [i \in Items |-> <<>>]
    /\ chunk = [i \in Items |-> 0]
    /\ success_count = [i \in Items |-> 0]
    /\ lock = 0
    /\ last_request_time = 0
    /\ wake = [w \in Threads |-> 0]
    /\ clock = ClockStart
    /\ permits = <<>>
    /\ observed = <<>>
    /\ called = [w \in Threads |-> 0]
    /\ acquires = [i \in Items |-> 0]
    /\ sent = [i \in Items |-> <<>>]
    /\ answers = [i \in Items |-> <<>>]

cli == <<lifelogs, dry_run, args_yes>>
\* The import runs: started with --yes, with and without --dry-run.
MInit ==
    /\ lifelogs \in RunInputs
    /\ dry_run \in BOOLEAN
    /\ args_yes = TRUE
    /\ MReady

\* The runs of step 4: every combination of --dry-run and --yes.
MInitConfirm ==
    /\ lifelogs \in ConfirmInputs
    /\ dry_run \in BOOLEAN
    /\ args_yes \in BOOLEAN
    /\ MReady

wstate == <<wpc, witem, payloads, chunk, success_count, wake>>
limiter == <<lock, last_request_time>>
tally == <<completed, success, failed, skipped, partial, total_conversations>>
history == <<permits, observed, called, acquires, sent, answers>>

\* str.lower(), on the letters an answer is typed with
Lower(c) ==
    IF c = "Y" THEN "y" ELSE IF c = "N" THEN "n" ELSE IF c = "E" THEN "e"
    ELSE IF c = "S" THEN "s" ELSE c

\* input("    Continue? [y/N]: ").strip().lower()
ReadAnswer(typed) == LET t == Strip(typed) IN [i \in 1..Len(t) |-> Lower(t[i])]

\* What the user may type at the prompt.
TypedAnswers ==
    { <<"y">>, <<"Y">>, <<" ", "y", " ">>, <<"n">>, <<>>, <<"y", "e", "s">> }

\* Line 523: `if confirm != 'y'` returns; anything else goes on
ProceedsMutant(answer) == answer # <<"n">>

Proceeds(answer) == answer = <<"y">>

\* Lines 505-525: the dry run returns; without --yes the prompt is read and
\* anything but "y" cancels.
Confirm ==
    /\ mpc = "confirm"
    /\ IF dry_run
       THEN mpc' = "dry_run_done" /\ confirm' = confirm
       ELSE IF args_yes
       THEN mpc' = "submit" /\ confirm' = confirm
       ELSE \E typed \in TypedAnswers :
              /\ confirm' = ReadAnswer(typed)
              /\ mpc' = IF Proceeds(ReadAnswer(typed)) THEN "submit" ELSE "cancelled"
    /\ UNCHANGED <<tvars, rvars, cli, futures, yielded, tally,
                   wstate, limiter, clock, history>>

\* Line 546: every work item is submitted to the executor.
Submit ==
    /\ mpc = "submit"
    /\ futures' = [i \in Items |-> [state |-> "pending", result |-> NoResult]]
    /\ mpc' = "as_completed"
    /\ UNCHANGED <<tvars, rvars, cli, confirm, yielded, tally, wstate,
                   limiter, clock, history>>

\* Lines 363-368
ClassifyPartsMutant(index, title, count, n) ==
    IF count = n THEN <<index, "success", title, n>>
    ELSE IF count > 0 THEN <<index, "partial", title, n>>
    ELSE <<index, "failed", title, 0>>

Classify(index, title, count, n) ==
    IF count = n THEN <<index, "success", title, n>>
    ELSE IF count > 0 THEN <<index, "partial", title, count>>
    ELSE <<index, "failed", title, 0>>

\* Line 351: `if not omi_payload["transcript_segments"]`
IsEmptyPayload(p) == p.transcript_segments = <<>>

\* The executor hands its queue out in submission order.
NextPending == CHOOSE i \in Items :
    /\ futures[i].state = "pending"
    /\ \A j \in Items : futures[j].state = "pending" => i <= j

\* The idle threads of the pool are interchangeable: the one that takes the
\* next work item is numbered lowest.
FirstIdle(w) == \A v \in Threads : wpc[v] = "idle" => w <= v

\* Lines 343-357: a pool thread takes the next work item and runs
\* import_single_lifelog up to its first create_conversation.
StartItem(w) ==
    /\ wpc[w] = "idle"
    /\ FirstIdle(w)
    /\ \E i \in Items : futures[i].state = "pending"
    /\ LET i == NextPending
           p == convert_lifelog_to_omi(lifelogs[i])
       IN IF IsEmptyPayload(p)
          THEN /\ futures' = [futures EXCEPT ![i] =
                    [state |-> "finished",
                     result |-> <<i - 1, "skipped", Title(lifelogs[i]), 0>>]]
               /\ UNCHANGED <<wstate, called>>
          ELSE /\ futures' = [futures EXCEPT ![i].state = "running"]
               /\ payloads' = [payloads EXCEPT ![i] = split_payload_if_needed(p)]
               /\ witem' = [witem EXCEPT ![w] = i]
               /\ wpc' = [wpc EXCEPT ![w] = "rate_limit"]
               /\ called' = [called EXCEPT ![w] = clock]
               /\ UNCHANGED <<chunk, success_count, wake>>
    /\ UNCHANGED <<tvars, rvars, cli, confirm, mpc, yielded, tally,
                   limiter, clock, permits, observed, acquires, sent, answers>>

\* Lines 194-195: how long _rate_limit sleeps
SleepTimeMutant(elapsed) ==
    IF elapsed > OMI_MIN_DELAY THEN OMI_MIN_DELAY - elapsed ELSE 0

SleepTimeLongMutant(elapsed) ==
    IF elapsed < OMI_MIN_DELAY THEN 2 * OMI_MIN_DELAY - elapsed ELSE 0

SleepTime(elapsed) ==
    IF elapsed < OMI_MIN_DELAY THEN OMI_MIN_DELAY - elapsed ELSE 0

\* Line 191: `with self._lock` goes on when no thread holds the lock
LockFreeMutant == TRUE

LockFree == lock = 0

\* Lines 191-195: the thread takes the lock, reads the clock and goes to
\* sleep for SleepTime (0: no sleep).
AcquireLock(w) ==
    /\ wpc[w] = "rate_limit"
    /\ LockFree
    /\ lock' = w
    /\ LET now     == clock
           elapsed == now - last_request_time
       IN wake' = [wake EXCEPT ![w] = now + SleepTime(elapsed)]
    /\ observed' = Append(observed, last_request_time)
    /\ wpc' = [wpc EXCEPT ![w] = "locked"]
    /\ UNCHANGED <<tvars, rvars, cli, confirm, mpc, futures,
                   yielded, tally, witem, payloads, chunk, success_count,
                   last_request_time, clock, permits, called, acquires, sent,
                   answers>>

\* Line 196 and the end of the with block: time.sleep has returned (no
\* earlier than asked), the clock is read again and stored, the lock is
\* released and _rate_limit returns.
Stamp(w) ==
    /\ wpc[w] = "locked"
    /\ clock >= wake[w]
    /\ last_request_time' = clock
    /\ lock' = 0
    /\ permits' = Append(permits, clock)
    /\ acquires' = [acquires EXCEPT ![witem[w]] = @ + 1]
    /\ wpc' = [wpc EXCEPT ![w] = "post"]
    /\ wake' = [wake EXCEPT ![w] = 0]
    /\ called' = [called EXCEPT ![w] = 0]
    /\ UNCHANGED <<tvars, rvars, cli, confirm, mpc, futures,
                   yielded, tally, witem, payloads, chunk, success_count, clock,
                   observed, sent, answers>>

\* Line 358: `for payload in payloads`, the payload of the current turn
LoopPayloadMutant(i) == payloads[i][Len(payloads[i]) - chunk[i]]

LoopPayload(i) == payloads[i][chunk[i] + 1]

\* Lines 202-206: requests.post is called with the payload.
Post(w) ==
    /\ wpc[w] = "post"
    /\ LET i == witem[w] IN
         sent' = [sent EXCEPT ![i] = Append(@, LoopPayload(i))]
    /\ wpc' = [wpc EXCEPT ![w] = "in_flight"]
    /\ UNCHANGED <<tvars, rvars, cli, confirm, mpc, futures, yielded, tally,
                   witem, payloads, chunk, success_count, wake, limiter,
                   clock, permits, observed, called, acquires, answers>>

\* Lines 208-211 and 358-368: the answer to the POST, the rest of the loop
\* turn and, after the last payload, the return of import_single_lifelog.
Response(w) ==
    /\ wpc[w] = "in_flight"
    /\ LET i == witem[w]
           n == Len(payloads[i])
       IN
       \/ \E answer \in {"ok", "http_error"} :
            \* response.ok: the JSON body, else None
            LET count == IF answer = "ok" THEN success_count[i] + 1
                         ELSE success_count[i]
            IN
            /\ answers' = [answers EXCEPT ![i] = Append(@, answer)]
            /\ success_count' = [success_count EXCEPT ![i] = count]
            /\ chunk' = [chunk EXCEPT ![i] = @ + 1]
            /\ IF chunk[i] + 1 < n
               THEN /\ wpc' = [wpc EXCEPT ![w] = "rate_limit"]
                    /\ called' = [called EXCEPT ![w] = clock]
                    /\ UNCHANGED <<witem, futures>>
               ELSE /\ futures' = [futures EXCEPT ![i] =
                         [state |-> "finished",
                          result |-> Classify(i - 1, Title(lifelogs[i]), count, n)]]
                    /\ wpc' = [wpc EXCEPT ![w] = "idle"]
                    /\ witem' = [witem EXCEPT ![w] = 0]
                    /\ called' = called
       \/ \* requests.post raises (connection error, timeout): nothing catches
          \* it before the future, which stores the exception
          /\ answers' = [answers EXCEPT ![i] = Append(@, "transport_error")]
          /\ futures' = [futures EXCEPT ![i] =
                            [state |-> "raised", result |-> NoResult]]
          /\ wpc' = [wpc EXCEPT ![w] = "idle"]
          /\ witem' = [witem EXCEPT ![w] = 0]
          /\ UNCHANGED <<chunk, success_count, called>>
    /\ UNCHANGED <<tvars, rvars, cli, confirm, mpc, yielded, tally, payloads,
                   wake, limiter, clock, permits, observed, acquires, sent>>

Done(i) == futures[i].state \in {"finished", "raised"}

\* Lines 549-568: one turn of the as_completed loop.
Consume ==
    /\ mpc = "as_completed"
    /\ \E i \in Items \ yielded :
         /\ Done(i)
         /\ yielded' = yielded \cup {i}
         /\ completed' = completed + 1
         /\ IF futures[i].state = "raised"
            THEN \* future.result() re-raises in main
                 /\ mpc' = "unwinding"
                 /\ UNCHANGED <<success, failed, skipped, partial, total_conversations>>
            ELSE LET status == futures[i].result[2]
                     parts  == futures[i].result[4]
                 IN
                 /\ mpc' = mpc
                 /\ success' = IF status = "success" THEN success + 1 ELSE success
                 /\ partial' = IF status = "partial" THEN partial + 1 ELSE partial
                 /\ failed'  = IF status = "failed" THEN failed + 1 ELSE failed
                 /\ skipped' = IF status \notin {"success", "partial", "failed"}
                               THEN skipped + 1 ELSE skipped
                 /\ total_conversations' =
                        IF status \in {"success", "partial"}
                        THEN total_conversations + parts ELSE total_conversations
    /\ UNCHANGED <<tvars, rvars, cli, confirm, futures, wstate, limiter,
                   clock, history>>

\* Lines 570-588: the loop is exhausted, the final summary is printed.
Summary ==
    /\ mpc = "as_completed"
    /\ yielded = Items
    /\ mpc' = "summary"
    /\ UNCHANGED <<tvars, rvars, cli, confirm, futures, yielded, tally,
                   wstate, limiter, clock, history>>

\* The exception leaves the with block, whose exit waits for the pool
\* (shutdown(wait=True)), and then leaves main: no summary is printed.
Unwind ==
    /\ mpc = "unwinding"
    /\ \A i \in Items : Done(i)
    /\ mpc' = "crashed"
    /\ UNCHANGED <<tvars, rvars, cli, confirm, futures, yielded, tally,
                   wstate, limiter, clock, history>>

\* Time passes while a thread is blocked: in a POST (for MaxIdleTicks ticks
\* of the run at most) or in time.sleep (until it may return).
Tick ==
    /\ mpc \in {"as_completed", "unwinding"}
    /\ \/ /\ clock < ClockStart + MaxIdleTicks
          /\ \E w \in Threads : wpc[w] = "in_flight"
       \/ \E w \in Threads : wpc[w] = "locked" /\ clock < wake[w]
    /\ clock' = clock + 1
    /\ UNCHANGED <<tvars, rvars, cli, confirm, mpc, futures, yielded, tally,
                   wstate, limiter, history>>

MNext ==
    \/ Confirm
    \/ Submit
    \/ \E w \in Threads :
          StartItem(w) \/ AcquireLock(w) \/ Stamp(w) \/ Post(w) \/ Response(w)
    \/ Consume
    \/ Summary
    \/ Unwind
    \/ Tick

-----------------------------------------------------------------------------
(* The specifications                                                      *)

InitTransform == TInit /\ RIdle /\ MIdle
SpecTransform == InitTransform /\ [][TNext]_vars

InitRange == TIdle /\ RInit /\ MIdle
SpecRange == InitRange /\ [][RNext]_vars

Init == TIdle /\ RIdle /\ MInit
Spec == Init /\ [][MNext]_vars

InitConfirm == TIdle /\ RIdle /\ MInitConfirm
SpecConfirm == InitConfirm /\ [][MNext]_vars

\* Every pool thread that can take a step eventually takes one (a POST that
\* was made is answered, a sleep that is over returns, a free lock is taken),
\* main goes on when it can, and time passes while a thread sleeps.
Fairness ==
    /\ \A w \in Threads :
          WF_vars(StartItem(w) \/ AcquireLock(w) \/ Stamp(w) \/ Post(w) \/ Response(w))
    /\ WF_vars(Confirm \/ Submit \/ Consume \/ Summary \/ Unwind)
    /\ WF_vars(Tick)

SpecLive == Init /\ [][MNext]_vars /\ Fairness

-----------------------------------------------------------------------------
(* Properties of convert_lifelog_to_omi and split_payload_if_needed,       *)
(* checked under SpecTransform.                                            *)

CeilDiv(n, m) == (n + m - 1) \div m

\* A block the transform retains: quoted transcript whose text holds at
\* least one character that is not white space.
Retained(block) ==
    /\ "type" \in DOMAIN block /\ block.type = "blockquote"
    /\ "content" \in DOMAIN block
    /\ \E j \in 1..Len(block.content) : block.content[j] # " "

ContentsOf(log) == IF "contents" \in DOMAIN log THEN log.contents ELSE <<>>

\* The record's retained segment_count.
SegmentCount(log) ==
    Cardinality({ i \in 1..Len(ContentsOf(log)) : Retained(ContentsOf(log)[i]) })

\* C3 as amended: once split(transform(r)) is computed, the number of payloads
\* is ceil(segment_count / OMI_MAX_SEGMENTS) when the record retains at least
\* one segment, and 1 (the payload itself, with no segments) when it retains
\* none.
C3_SplitCount ==
    tpc = "split" =>
        Len(split_payloads) =
            IF SegmentCount(lifelog) > 0
            THEN CeilDiv(SegmentCount(lifelog), OMI_MAX_SEGMENTS)
            ELSE 1

\* C3 as stated: the number of payloads of split(transform(r)) is
\* ceil(segment_count / OMI_MAX_SEGMENTS) when segment_count > 0 and 0 when
\* segment_count = 0.
C3_SplitCountAsStated ==
    tpc = "split" =>
        Len(split_payloads) =
            IF SegmentCount(lifelog) > 0
            THEN CeilDiv(SegmentCount(lifelog), OMI_MAX_SEGMENTS)
            ELSE 0

\* A record of 2 * OMI_MAX_SEGMENTS + 1 segments has been split in three.
C3_Witness ==
    /\ tpc = "split"
    /\ SegmentCount(lifelog) = 2 * OMI_MAX_SEGMENTS + 1
    /\ Len(split_payloads) = 3

RECURSIVE ConcatSegments(_)
ConcatSegments(ps) ==
    IF ps = <<>> THEN <<>>
    ELSE Head(ps).transcript_segments \o ConcatSegments(Tail(ps))

\* C4: the chunks of split_payload_if_needed(p), concatenated in chunk order,
\* are p's segment sequence, and every chunk carries p's started_at,
\* finished_at, source and language.
C4_SplitRoundTrip ==
    tpc = "split" =>
        /\ ConcatSegments(split_payloads) = omi_payload.transcript_segments
        /\ \A k \in 1..Len(split_payloads) :
              /\ split_payloads[k].started_at = omi_payload.started_at
              /\ split_payloads[k].finished_at = omi_payload.finished_at
              /\ split_payloads[k].source = omi_payload.source
              /\ split_payloads[k].language = omi_payload.language

\* A payload whose segments differ from one another has been split in two.
C4_Witness ==
    /\ tpc = "split"
    /\ Len(split_payloads) = 2
    /\ Len(omi_payload.transcript_segments) = OMI_MAX_SEGMENTS + 1
    /\ omi_payload.transcript_segments[1] # omi_payload.transcript_segments[2]
    /\ omi_payload.started_at # omi_payload.finished_at

\* The speaker names of the retained blocks, in order; an absent name is
\* "Unknown".
RECURSIVE RetainedNames(_)
RetainedNames(contents) ==
    IF contents = <<>> THEN <<>>
    ELSE LET b == Head(contents) IN
         IF Retained(b)
         THEN <<IF "speakerName" \in DOMAIN b THEN b.speakerName ELSE "Unknown">>
              \o RetainedNames(Tail(contents))
         ELSE RetainedNames(Tail(contents))

\* The number of distinct names before the first occurrence of names[i].
FirstSeenRank(names, i) ==
    LET first == CHOOSE j \in 1..i :
                     names[j] = names[i] /\ \A h \in 1..(j - 1) : names[h] # names[i]
    IN Cardinality({ names[h] : h \in 1..(first - 1) })

\* C8: in the payload of one convert_lifelog_to_omi call, segment i carries
\* the first-seen rank of its speaker name as speaker_id and as the two-digit
\* ordinal of its label; two segments share an index iff they share a name;
\* the indices used are exactly 0..k-1.
C8_SpeakerLabels ==
    tpc \in {"converted", "split"} =>
        LET names == RetainedNames(ContentsOf(lifelog))
            segs  == omi_payload.transcript_segments
        IN
        /\ Len(segs) = Len(names)
        /\ \A i \in 1..Len(segs) :
              /\ segs[i].speaker_id = FirstSeenRank(names, i)
              /\ segs[i].speaker =
                    <<"SPEAKER_", segs[i].speaker_id \div 10, segs[i].speaker_id % 10>>
        /\ \A i, j \in 1..Len(segs) :
              (segs[i].speaker_id = segs[j].speaker_id) <=> (names[i] = names[j])
        /\ { segs[i].speaker_id : i \in 1..Len(segs) }
              = 0..(Cardinality({ names[i] : i \in 1..Len(names) }) - 1)

\* Names [A, B, A, C] got the indices [0, 1, 0, 2].
C8_Witness ==
    /\ tpc = "converted"
    /\ RetainedNames(ContentsOf(lifelog)) = <<"A", "B", "A", "C">>
    /\ [i \in 1..4 |-> omi_payload.transcript_segments[i].speaker_id] = <<0, 1, 0, 2>>

\* What import_single_lifelog makes of the record: nothing when the converted
\* payload has no segments, else the payloads of the split.
ProducedPayloads ==
    IF omi_payload.transcript_segments = <<>> THEN <<>> ELSE split_payloads

\* C11: for a set of one record, once the analysis, the conversion and the
\* split are done, oversized_count is 1 exactly when the record is made into
\* more than one payload, and total_conversations - importable is the number
\* of payloads made beyond the first.
C11_PreviewMatchesRun ==
    (tpc = "split" /\ stats # NotYet) =>
        /\ stats.oversized_count = (IF Len(ProducedPayloads) > 1 THEN 1 ELSE 0)
        /\ stats.total_conversations - stats.importable =
               (IF ProducedPayloads = <<>> THEN 0 ELSE Len(ProducedPayloads) - 1)

\* import_single_lifelog returns "skipped" for a record converted to p.
IsSkipped(p) == p.transcript_segments = <<>>

\* C21: for a set of one record, once the analysis and the conversion are
\* done, empty_count is 1 exactly when import_single_lifelog skips the record
\* (its converted payload has no segments), and importable is 1 exactly when
\* an upload is attempted for it.
C21_EmptyCountMatchesSkipped ==
    (tpc \in {"converted", "split"} /\ stats # NotYet) =>
        /\ stats.empty_count = (IF IsSkipped(omi_payload) THEN 1 ELSE 0)
        /\ stats.importable = (IF IsSkipped(omi_payload) THEN 0 ELSE 1)

-----------------------------------------------------------------------------
(* Properties of get_date_range, checked under SpecRange.                  *)

\* a is the same day as b or an earlier one
DateLeq(a, b) ==
    \/ a[1] < b[1]
    \/ a[1] = b[1] /\ a[2] < b[2]
    \/ a[1] = b[1] /\ a[2] = b[2] /\ a[3] <= b[3]

EarliestWithData == CHOOSE d \in has_data : \A e \in has_data : DateLeq(d, e)
LatestWithData == CHOOSE d \in has_data : \A e \in has_data : DateLeq(e, d)

\* The dates with data are exactly the days from the earliest to the latest.
Contiguous ==
    \A n \in Strptime(EarliestWithData)..Strptime(LatestWithData) :
        Strftime(n) \in has_data

NoProbeFailed ==
    \A k \in 1..Len(probes) : probes[k].answer \in {"data", "empty"}

Returned == rpc = "done"

\* C9: for a source whose dates with data are a contiguous interval E..L and
\* whose probes never fail, get_date_range returns (E, L).
C9_ContiguousRange ==
    (Returned /\ NoProbeFailed /\ has_data # {} /\ Contiguous) =>
        range_result = <<EarliestWithData, LatestWithData>>

\* The whole span of days holds data: discovery went through the doubling
\* phase up to its ceiling, through the day-by-day phase, and returned.
C9_Witness ==
    /\ Returned /\ NoProbeFailed
    /\ has_data = SourceDates
    /\ ~WithinCeiling(days_back)
    /\ range_result = <<Strftime(FirstDay), Strftime(FirstDay + DaysSpan - 1)>>

\* C10: for every source, with or without empty days between the dates with
\* data, and no failed probe, the earliest_date returned is the earliest date
\* on which the source has a lifelog.
C10_EarliestFound ==
    (Returned /\ NoProbeFailed /\ has_data # {}) =>
        range_result[1] = EarliestWithData

\* get_date_range has returned a pair of dates.
ReturnedRange == Returned /\ range_result # <<NoDate, NoDate>>

LastProbe == probes[Len(probes)]

\* C17: when get_date_range returns (earliest, latest), earliest is latest or
\* an earlier day, the source has a lifelog on earliest, and the last probe
\* made was of the day before earliest and gave no data.
C17_BoundaryPinned ==
    ReturnedRange =>
        LET earliest == range_result[1]
            latest   == range_result[2]
        IN
        /\ DateLeq(earliest, latest)
        /\ earliest \in has_data
        /\ LastProbe.date = Strftime(Strptime(earliest) - 1)
        /\ LastProbe.answer \in {"empty", "http_error"}

\* The range returned is four days long: its first day is no candidate of the
\* doubling phase, the day-by-day phase found it and then an empty day.
C17_Witness ==
    /\ ReturnedRange
    /\ Strptime(range_result[2]) - Strptime(range_result[1]) = 3
    /\ LastProbe.answer = "empty"
    /\ Len(probes) >= 5

\* The number of days from date to latest_date.
DaysBeforeLatest(date) == Strptime(latest_date) - Strptime(date)

\* C18: get_date_range never probes a date more than MAX_DAYS_BACK days before
\* latest_date, and never returns one as earliest_date.
C18_DiscoveryCeiling ==
    /\ \A k \in 1..Len(probes) :
          probes[k].date # NoDate => DaysBeforeLatest(probes[k].date) <= MAX_DAYS_BACK
    /\ ReturnedRange => DaysBeforeLatest(range_result[1]) <= MAX_DAYS_BACK

\* What discovery finds in a source that holds lifelogs on the dates `data`
\* when no probe fails: the doubling phase from `earliest` on with the next
\* jump days, and the day-by-day phase from `earliest` on.
RECURSIVE DoublingFinds(_, _, _, _)
DoublingFinds(data, latest, earliest, days) ==
    IF ~(days < MAX_DAYS_BACK) THEN earliest
    ELSE IF DateMinus(latest, days) \in data
         THEN DoublingFinds(data, latest, DateMinus(latest, days), 2 * days)
         ELSE earliest

RECURSIVE DayByDayFinds(_, _)
DayByDayFinds(data, earliest) ==
    IF DateMinus(earliest, 1) \in data
    THEN DayByDayFinds(data, DateMinus(earliest, 1))
    ELSE earliest

RangeOf(data) ==
    IF data = {} THEN <<NoDate, NoDate>>
    ELSE LET latest == MostRecent(data) IN
         <<DayByDayFinds(data, DoublingFinds(data, latest, latest, 1)), latest>>

FailedProbes ==
    { k \in 1..Len(probes) : probes[k].answer \in {"http_error", "transport_error"} }

\* The source without the lifelogs of the dates whose probe failed; without
\* any lifelog when the fetch of the most recent lifelog failed.
SourceIfEmpty ==
    IF \E k \in FailedProbes : probes[k].date = NoDate THEN {}
    ELSE has_data \ { probes[k].date : k \in FailedProbes }

\* C19: a failed probe never ends get_date_range abnormally, and what
\* get_date_range returns after failed probes is what it returns, with no
\* probe failing, for the source without data on the dates of those probes.
C19_FailedProbeAsEmpty ==
    /\ rpc # "raised"
    /\ Returned => range_result = RangeOf(SourceIfEmpty)

-----------------------------------------------------------------------------
(* Properties of the import run, checked under Spec.                       *)

RECURSIVE SumOver(_, _)
SumOver(f, S) ==
    IF S = {} THEN 0
    ELSE LET x == CHOOSE y \in S : TRUE IN f[x] + SumOver(f, S \ {x})

\* The uploads of work item i that succeeded.
Succeeded(i) == Cardinality({ k \in 1..Len(answers[i]) : answers[i][k] = "ok" })

\* The thread running work item i is between the return of _rate_limit and
\* its requests.post.
AboutToPost(i) == \E w \in Threads : witem[w] = i /\ wpc[w] = "post"

\* C1: the calls the one shared limiter permits (the returns of _rate_limit,
\* over all threads) are at least OMI_MIN_DELAY apart, so the N-th is no
\* earlier than (N-1) * OMI_MIN_DELAY after the first; and every upload is
\* issued after an acquire of its own on that limiter.
C1_RateLimitSpacing ==
    /\ \A n \in 2..Len(permits) : permits[n] - permits[n - 1] >= OMI_MIN_DELAY
    /\ \A n \in 1..Len(permits) :
          permits[n] - permits[1] >= (n - 1) * OMI_MIN_DELAY
    /\ \A i \in Items :
          acquires[i] = Len(sent[i]) + (IF AboutToPost(i) THEN 1 ELSE 0)
    /\ Len(permits) = SumOver(acquires, Items)

\* Two threads called _rate_limit at the same time, one slept, and uploads
\* of both work items were permitted exactly OMI_MIN_DELAY apart.
C1_Witness ==
    /\ Len(permits) >= 2
    /\ permits[2] - permits[1] = OMI_MIN_DELAY
    /\ Len(lifelogs) >= 2
    /\ acquires[1] >= 1 /\ acquires[2] >= 1
    /\ Len(sent[1]) >= 1 /\ Len(sent[2]) >= 1

\* ts is a contiguous slice of segs
IsSlice(ts, segs) ==
    \E a \in 1..(Len(segs) + 1) : \E b \in 0..Len(segs) : ts = SubSeq(segs, a, b)

\* C2: no payload handed to create_conversation has more than
\* OMI_MAX_SEGMENTS transcript segments and none has zero; every chunk of
\* split_payload_if_needed is a contiguous slice, of at most
\* OMI_MAX_SEGMENTS segments, of the converted lifelog.
C2_PayloadSize ==
    \A i \in Items :
        /\ \A k \in 1..Len(sent[i]) :
              /\ Len(sent[i][k].transcript_segments) >= 1
              /\ Len(sent[i][k].transcript_segments) <= OMI_MAX_SEGMENTS
        /\ \A k \in 1..Len(payloads[i]) :
              /\ Len(payloads[i][k].transcript_segments) <= OMI_MAX_SEGMENTS
              /\ IsSlice(payloads[i][k].transcript_segments,
                         convert_lifelog_to_omi(lifelogs[i]).transcript_segments)

\* A lifelog of 2 * OMI_MAX_SEGMENTS + 1 segments went out as three payloads,
\* the first full and the last short.
C2_Witness ==
    \E i \in Items :
        /\ SegmentCount(lifelogs[i]) = 2 * OMI_MAX_SEGMENTS + 1
        /\ Len(sent[i]) = 3
        /\ Len(sent[i][1].transcript_segments) = OMI_MAX_SEGMENTS
        /\ Len(sent[i][3].transcript_segments) = 1

\* import_single_lifelog has returned for work item i, which was not skipped.
ReturnedImported(i) ==
    /\ futures[i].state = "finished"
    /\ futures[i].result[2] # "skipped"

\* C5: when import_single_lifelog returns for a record split into n payloads
\* of which k uploads succeeded, the status is "success" iff k = n, "partial"
\* iff 0 < k < n, "failed" iff k = 0, and the count reported is k.
C5_OutcomeClassification ==
    \A i \in Items :
        ReturnedImported(i) =>
            LET n      == Len(payloads[i])
                k      == Succeeded(i)
                status == futures[i].result[2]
            IN
            /\ Len(answers[i]) = n
            /\ status \in {"success", "partial", "failed"}
            /\ (status = "success") <=> (k = n)
            /\ (status = "partial") <=> (0 < k /\ k < n)
            /\ (status = "failed") <=> (k = 0)
            /\ futures[i].result[4] = k
            /\ futures[i].result[1] = i - 1

\* A record of 2 * OMI_MAX_SEGMENTS + 1 segments, two of its three uploads
\* succeeding, came back "partial" with count 2.
C5_Witness ==
    \E i \in Items :
        /\ ReturnedImported(i)
        /\ SegmentCount(lifelogs[i]) = 2 * OMI_MAX_SEGMENTS + 1
        /\ Len(payloads[i]) = 3
        /\ Succeeded(i) = 2
        /\ futures[i].result[2] = "partial"
        /\ futures[i].result[4] = 2

\* C6: a failed upload, whether a non-success response or a transport error,
\* is counted as one failed payload in its record's outcome, is never
\* re-sent, and never aborts the run: every payload is sent at most once and
\* in order, a record whose import has ended has an outcome that counts its
\* successful uploads with every payload sent, and main is never left by an
\* exception.
C6_UploadFailuresIsolated ==
    /\ \A i \in Items :
          /\ Len(sent[i]) <= Len(payloads[i])
          /\ \A k \in 1..Len(sent[i]) : sent[i][k] = payloads[i][k]
          /\ futures[i].state # "raised"
          /\ ReturnedImported(i) =>
                /\ Len(sent[i]) = Len(payloads[i])
                /\ futures[i].result[4] = Succeeded(i)
    /\ mpc \notin {"unwinding", "crashed"}

\* Every block of the lifelog is of a type other than "blockquote".
NoTranscriptBlock(log) ==
    \A k \in 1..Len(ContentsOf(log)) :
        ~("type" \in DOMAIN ContentsOf(log)[k]
          /\ ContentsOf(log)[k].type = "blockquote")

\* C7: a record whose content blocks are all of a type other than
\* "blockquote" is never uploaded - no _rate_limit call, no POST, no payload -
\* and its outcome, once there, is "skipped" with count 0.
C7_SkipWithoutTranscript ==
    \A i \in Items :
        NoTranscriptBlock(lifelogs[i]) =>
            /\ acquires[i] = 0
            /\ sent[i] = <<>>
            /\ payloads[i] = <<>>
            /\ \A w \in Threads : witem[w] # i
            /\ futures[i].state \in {"unsubmitted", "pending", "finished"}
            /\ futures[i].state = "finished" =>
                  /\ futures[i].result[2] = "skipped"
                  /\ futures[i].result[4] = 0

\* A record with two non-transcript blocks that carry text was skipped while
\* another record of the run was uploaded.
C7_Witness ==
    \E i, j \in Items :
        /\ NoTranscriptBlock(lifelogs[i])
        /\ Len(ContentsOf(lifelogs[i])) = 2
        /\ \A k \in 1..2 : Len(ContentsOf(lifelogs[i])[k].content) >= 2
        /\ futures[i].state = "finished"
        /\ futures[i].result[2] = "skipped"
        /\ i \in yielded
        /\ Len(sent[j]) >= 1

\* Nothing of an upload has happened: no thread runs a work item, the lock
\* was never taken, _rate_limit never returned and no POST was made.
NoUploadActivity ==
    /\ \A w \in Threads : wpc[w] = "idle" /\ witem[w] = 0
    /\ lock = 0
    /\ last_request_time = 0
    /\ permits = <<>>
    /\ \A i \in Items : acquires[i] = 0 /\ sent[i] = <<>> /\ answers[i] = <<>>

\* C12: in a run with --dry-run, and in a run without --yes whose prompt is
\* not yet answered or is answered with anything that main does not read as
\* "y", no create_conversation call and no _rate_limit call has happened, in
\* any state.
C12_NoUploadUnauthorised ==
    (dry_run \/ mpc = "confirm" \/ (~args_yes /\ confirm # <<"y">>)) =>
        NoUploadActivity

\* A run of two records, without --dry-run and --yes, was cancelled by the
\* answer "yes".
C12_Witness ==
    /\ ~dry_run /\ ~args_yes
    /\ confirm = <<"y", "e", "s">>
    /\ mpc = "cancelled"
    /\ Len(lifelogs) = 2
    /\ NoUploadActivity

\* The threads that run work item i.
Runners(i) == { w \in Threads : witem[w] = i }

\* C13: for each record, the payloads handed to requests.post so far are the
\* first ones of its payload list, in list order; at most one of them has not
\* been answered yet, and it is the last one sent, held by the one thread that
\* runs the record; so upload k + 1 starts only after upload k has returned.
C13_PerRecordOrder ==
    \A i \in Items :
        /\ Cardinality(Runners(i)) <= 1
        /\ Len(sent[i]) <= Len(payloads[i])
        /\ \A k \in 1..Len(sent[i]) : sent[i][k] = payloads[i][k]
        /\ Len(answers[i]) <= Len(sent[i])
        /\ Len(sent[i]) <= Len(answers[i]) + 1
        /\ (Len(sent[i]) = Len(answers[i]) + 1) <=>
               (\E w \in Runners(i) : wpc[w] = "in_flight")
        /\ \A k \in 1..(Len(answers[i]) - 1) : answers[i][k] # "transport_error"

\* The second upload of a two-payload record is in flight while a record
\* submitted after it has already completed and been consumed.
C13_Witness ==
    \E i, j \in Items :
        /\ i < j
        /\ Len(payloads[i]) = 2
        /\ payloads[i][1] # payloads[i][2]
        /\ Len(sent[i]) = 2 /\ Len(answers[i]) = 1
        /\ Len(sent[j]) = 1
        /\ futures[j].state = "finished"
        /\ j \in yielded

\* The threads inside the `with self._lock` block of _rate_limit.
InLimiter == { w \in Threads : wpc[w] = "locked" }

\* C14: at most one thread is inside the locked block of _rate_limit, and it
\* is the holder of the lock; no two waits were computed from the same value
\* of _last_request_time; and _last_request_time, which holds the latest
\* value written to it, was only ever written with growing values.
C14_LimiterMutex ==
    /\ Cardinality(InLimiter) <= 1
    /\ \A w \in Threads : (wpc[w] = "locked") <=> (lock = w)
    /\ \A m, n \in 1..Len(observed) : m # n => observed[m] # observed[n]
    /\ \A n \in 2..Len(permits) : permits[n - 1] <= permits[n]
    /\ last_request_time = (IF permits = <<>> THEN 0 ELSE permits[Len(permits)])
    /\ last_request_time <= clock

\* One thread sleeps inside the locked block, having read the time another
\* thread stored, while the other thread waits for the lock for its next
\* upload.
C14_Witness ==
    \E w, v \in Threads :
        /\ w # v
        /\ wpc[w] = "locked" /\ clock < wake[w]
        /\ wpc[v] = "rate_limit"
        /\ Len(observed) = 2
        /\ observed[2] = permits[1]
        /\ observed[2] > observed[1]

\* C15 as amended: the sleep a call of _rate_limit asks for once it holds the
\* lock is at most OMI_MIN_DELAY (the time it then still has to sleep never
\* exceeds OMI_MIN_DELAY); the wait for the lock comes on top of it and is
\* not bounded by OMI_MIN_DELAY.
C15_BoundedSleep ==
    \A w \in Threads :
        wpc[w] = "locked" => wake[w] - clock <= OMI_MIN_DELAY

\* C15 as stated: a call of _rate_limit returns within OMI_MIN_DELAY of being
\* called - the time from which its sleep may return is at most
\* OMI_MIN_DELAY after the call.
C15_BoundedBlockingAsStated ==
    \A w \in Threads :
        wpc[w] = "locked" => wake[w] - called[w] <= OMI_MIN_DELAY

\* A thread that waited for the lock has it now and sleeps for the whole of
\* OMI_MIN_DELAY.
C15_Witness ==
    \E w \in Threads :
        /\ wpc[w] = "locked"
        /\ wake[w] - clock = OMI_MIN_DELAY
        /\ called[w] < clock

\* The records main has taken from as_completed whose outcome is `status`.
Counted(status) ==
    Cardinality({ i \in yielded :
                    futures[i].result # NoResult /\ futures[i].result[2] = status })

\* C16: in every state of the import loop and after it, completed is the sum
\* of the four counters, every record taken from as_completed is counted in
\* exactly one of them, by its outcome, and once the loop is over the four
\* counters sum to the number of input records.
C16_TalliesConsistent ==
    mpc \in {"as_completed", "unwinding", "crashed", "summary"} =>
        /\ completed = success + partial + failed + skipped
        /\ completed = Cardinality(yielded)
        /\ success = Counted("success")
        /\ partial = Counted("partial")
        /\ failed = Counted("failed")
        /\ skipped = Counted("skipped")
        /\ mpc \in {"crashed", "summary"} =>
              success + partial + failed + skipped = Len(lifelogs)

\* C20: with fair scheduling and every POST answered, every thread that has
\* called _rate_limit gets out of it, every submitted record gets an outcome
\* that main takes from as_completed, and a run that submits its records
\* reaches the final summary.
C20_RunsToCompletion ==
    /\ \A w \in Threads :
          (wpc[w] \in {"rate_limit", "locked"}) ~> (wpc[w] = "post")
    /\ \A i \in 1..MaxLifelogs :
          (i \in Items /\ futures[i].state = "pending")
              ~> (i \in yielded /\ futures[i].state = "finished")
    /\ (mpc = "submit") ~> (mpc = "summary")

\* The successful uploads of the records in S.
UploadsSucceeded(S) == SumOver([i \in Items |-> Succeeded(i)], S)

\* C22: in every state of the import loop and after it, total_conversations
\* is the number of create_conversation calls that succeeded for the records
\* main has taken from as_completed, and once the loop is over it is the
\* number of successful uploads of the whole run.
C22_ConversationsTally ==
    mpc \in {"as_completed", "unwinding", "crashed", "summary"} =>
        /\ total_conversations = UploadsSucceeded(yielded)
        /\ mpc \in {"crashed", "summary"} =>
              total_conversations = UploadsSucceeded(Items)

====
